---- MODULE Spec2Model ----
(***************************************************************************)
(* Model of src/app.py: the create path and the delete path of main(), the *)
(* employee lookup built by get_employees, the row key built in main, and  *)
(* parse_date.                                                             *)
(*                                                                         *)
(* Text.  A Python string is modelled as the sequence of its pieces        *)
(* between single spaces: "" is <<"">>, "A" is <<"A">>, "A B" is           *)
(* <<"A","B">> and "A  C" (two spaces) is <<"A","","C">>.  With this       *)
(* f"{a} {b}" is a \o b and str.strip() drops the empty pieces at both     *)
(* ends.  Cyrillic literals of the source are transliterated, since the    *)
(* strings of a module are ASCII.                                          *)
(***************************************************************************)
EXTENDS Integers, Sequences, FiniteSets, TLC

VARIABLES
    pc,             \* position of the running script inside main()
    api_key,        \* st.text_input value (line 297)
    timezone,       \* st.selectbox value (line 302)
    button,         \* which st.button returned True in this run
    uploaded_file,  \* st.file_uploader value (line 319)
    calendar_types, \* line 357
    employees,      \* line 362
    rowIdx,         \* position of the DictReader of line 372 / 376
    results,        \* lines 368 and 478
    summary,        \* the three numbers of lines 431-433
    locations,      \* line 445
    location_id,    \* line 451
    employee_ids,   \* line 470
    event_ids,      \* line 476
    evIdx,          \* position of the loop of line 480
    calls,          \* the remote requests issued by this run, in order
    ui,             \* the st.info / warning / error / success boxes of this run
    answer,         \* what requests.post of line 281 gave for the row just visited
    empList         \* the employee list of the last answer of the employees endpoint

vars == <<pc, api_key, timezone, button, uploaded_file, calendar_types,
          employees, rowIdx, results, summary, locations, location_id,
          employee_ids, event_ids, evIdx, calls, ui, answer, empList>>

(***************************************************************************)
(* Bounds of the model.                                                    *)
(***************************************************************************)
MaxRows == 2      \* data rows of an uploaded CSV
MaxEvents == 2    \* events returned by the calendar query
MaxEmps == 2      \* employees of a list of the name resolver study

(***************************************************************************)
(* Strings.                                                                *)
(***************************************************************************)
EmptyStr == <<"">>

S(w) == <<w>>

RECURSIVE LStrip(_)
LStrip(s) ==
    IF Len(s) > 1 /\ Head(s) = "" THEN LStrip(Tail(s)) ELSE s

RECURSIVE RStrip(_)
RStrip(s) ==
    IF Len(s) > 1 /\ s[Len(s)] = "" THEN RStrip(SubSeq(s, 1, Len(s) - 1)) ELSE s

\* str.strip()
Strip(s) == RStrip(LStrip(s))

\* f"{a} {b}"
Join(a, b) == a \o b

\* f"{a} {b} {c}"
Join3(a, b, c) == a \o b \o c

\* Python truthiness of a string
Truthy(s) == s # EmptyStr

\* dict[key] = value
Put(d, k, v) == (k :> v) @@ d

(***************************************************************************)
(* Name resolver: the lookup of get_employees and the key of a CSV row.    *)
(* An employee of the remote list is [id, lastName, firstName, middleName, *)
(* locationIds]; a missing or null name part reads as "" (the "or ''" of   *)
(* lines 217-219).                                                         *)
(***************************************************************************)
\* lines 225-229: the display name stored with every key
DisplayName(last_name, first_name, middle_name) ==
    IF ~Truthy(first_name) /\ ~Truthy(middle_name) THEN last_name
    ELSE IF ~Truthy(middle_name) THEN Join(last_name, first_name)
    ELSE Strip(Join3(last_name, first_name, middle_name))

\* lines 231-236: the keys one employee registers, in the order of registration
EmployeeKeys(last_name, first_name, middle_name) ==
    (IF Truthy(middle_name) THEN <<Join3(last_name, first_name, middle_name)>> ELSE <<>>)
    \o (IF Truthy(first_name) THEN <<Join(last_name, first_name)>> ELSE <<>>)
    \o (IF ~Truthy(first_name) /\ ~Truthy(middle_name) THEN <<last_name>> ELSE <<>>)

RECURSIVE PutAll(_, _, _)
PutAll(d, keys, v) ==
    IF keys = <<>> THEN d ELSE PutAll(Put(d, Head(keys), v), Tail(keys), v)

\* lines 217-236: one pass of the loop body
RegisterEmployee(employee_dict, emp) ==
    LET last_name   == Strip(emp.lastName)
        first_name  == Strip(emp.firstName)
        middle_name == Strip(emp.middleName)
    IN  IF ~Truthy(last_name) THEN employee_dict
        ELSE PutAll(employee_dict,
                    EmployeeKeys(last_name, first_name, middle_name),
                    [id |-> emp.id,
                     name |-> DisplayName(last_name, first_name, middle_name)])

\* lines 215-237: the loop over the employees, in list order
RECURSIVE BuildEmployeeDict(_, _)
BuildEmployeeDict(employee_dict, emps) ==
    IF emps = <<>> THEN employee_dict
    ELSE BuildEmployeeDict(RegisterEmployee(employee_dict, Head(emps)), Tail(emps))

EmptyDict == <<>>

\* lines 221-223: one warning per employee without a surname
SurnameWarnings(emps) ==
    [i \in 1..Cardinality({j \in 1..Len(emps) : ~Truthy(Strip(emps[j].lastName))})
        |-> [level |-> "warning", tpl |-> "employee_without_surname"]]

\* lines 385-388: the cells of a row, stripped; a column the file does not have
\* reads as '' (the default of rown.get)
Cell(header, r, col) == IF S(col) \in header THEN Strip(r[col]) ELSE EmptyStr

\* lines 400-405: the key a row is looked up under
RowKey(surname, name, middle_name) ==
    IF Truthy(middle_name) THEN Strip(Join3(surname, name, middle_name))
    ELSE IF Truthy(name) THEN Strip(Join(surname, name))
    ELSE surname

\* line 407: employees.get(full_name)
NoEmployee == [id |-> "", name |-> EmptyStr]

DictGet(d, k, default) == IF k \in DOMAIN d THEN d[k] ELSE default

(***************************************************************************)
(* Date normalizer.  A date cell is [kind, d, m, y, yd]: kind "blank" is   *)
(* an empty or whitespace-only cell, "text" a cell that is no d/m/y        *)
(* triple, "dmy" the text d/m/y whose year is written with yd digits.      *)
(* An instant is [Y, M, D, h, mi, s, us]; NoneDt stands for the ValueError *)
(* of strptime.  parse_date returns the text strftime makes of the         *)
(* instant, or NoDate.                                                     *)
(***************************************************************************)
NoneDt == [Y |-> 0, M |-> 0, D |-> 0, h |-> 0, mi |-> 0, s |-> 0, us |-> 0]

IsLeap(y) == (y % 4 = 0 /\ y % 100 # 0) \/ y % 400 = 0

DaysInMonth(y, m) ==
    IF m = 2 THEN (IF IsLeap(y) THEN 29 ELSE 28)
    ELSE IF m \in {4, 6, 9, 11} THEN 30 ELSE 31

\* datetime.strptime(text, fmt) of line 255: NoneDt stands for ValueError.
\* %y takes exactly two digits and maps 00-68 to 20xx, 69-99 to 19xx; %Y takes
\* exactly four digits; the day must exist in the month.
Strptime(c, fmt) ==
    LET year == IF fmt = "%d/%m/%y"
                THEN (IF c.y <= 68 THEN 2000 + c.y ELSE 1900 + c.y)
                ELSE c.y
        digits == IF fmt = "%d/%m/%y" THEN 2 ELSE 4
    IN  IF c.kind = "dmy" /\ c.yd = digits
           /\ c.m \in 1..12 /\ year >= 1
           /\ c.d >= 1 /\ c.d <= DaysInMonth(year, c.m)
        THEN [Y |-> year, M |-> c.m, D |-> c.d, h |-> 0, mi |-> 0, s |-> 0, us |-> 0]
        ELSE NoneDt

\* pytz: the UTC offset, in hours, of the zones of the model (none of them has
\* had a transition in the years of DatePool)
UtcOffset(tz) ==
    CASE tz = "Europe/Moscow" -> 3
      [] tz = "America/Bogota" -> 0 - 5
      [] OTHER -> 0

PrevDay(dt) ==
    IF dt.D > 1 THEN [dt EXCEPT !.D = dt.D - 1]
    ELSE IF dt.M > 1 THEN [dt EXCEPT !.M = dt.M - 1, !.D = DaysInMonth(dt.Y, dt.M - 1)]
    ELSE [dt EXCEPT !.Y = dt.Y - 1, !.M = 12, !.D = 31]

NextDay(dt) ==
    IF dt.D < DaysInMonth(dt.Y, dt.M) THEN [dt EXCEPT !.D = dt.D + 1]
    ELSE IF dt.M < 12 THEN [dt EXCEPT !.M = dt.M + 1, !.D = 1]
    ELSE [dt EXCEPT !.Y = dt.Y + 1, !.M = 1, !.D = 1]

\* a conversion that moves the hour and keeps the local calendar day
ToUtcSameDay(dt, tz) ==
    [dt EXCEPT !.h = (dt.h - UtcOffset(tz)) % 24]

\* lines 258-259 and 467-468: tz.localize(dt).astimezone(pytz.UTC)
ToUtc(dt, tz) ==
    LET hh == dt.h - UtcOffset(tz)
    IN  IF hh < 0 THEN [PrevDay(dt) EXCEPT !.h = hh + 24]
        ELSE IF hh >= 24 THEN [NextDay(dt) EXCEPT !.h = hh - 24]
        ELSE [dt EXCEPT !.h = hh]

\* %m, %d, %H, %M, %S: two digits
Pad2(n) == IF n < 10 THEN "0" \o ToString(n) ELSE ToString(n)

RECURSIVE Zeros(_)
Zeros(k) == IF k <= 0 THEN "" ELSE "0" \o Zeros(k - 1)

\* %f: the microsecond in six digits
Pad6(n) == Zeros(6 - Len(ToString(n))) \o ToString(n)

\* lines 260 and 467-468: strftime("%Y-%m-%dT%H:%M:%S.%fZ")
Strftime(dt) ==
    ToString(dt.Y) \o "-" \o Pad2(dt.M) \o "-" \o Pad2(dt.D) \o "T"
        \o Pad2(dt.h) \o ":" \o Pad2(dt.mi) \o ":" \o Pad2(dt.s)
        \o "." \o Pad6(dt.us) \o "Z"

\* None of lines 247 and 265; like None, it is falsy on line 396
NoDate == ""

\* lines 256-260: what one format gives once strptime has succeeded
Localized(dt, tz, is_end_date) ==
    Strftime(ToUtc(IF is_end_date THEN [dt EXCEPT !.h = 23, !.mi = 59, !.s = 59] ELSE dt, tz))

\* lines 245-265
parse_date(date_str, tz, is_end_date) ==
    IF date_str.kind = "blank" THEN NoDate
    ELSE IF Strptime(date_str, "%d/%m/%y") # NoneDt
         THEN Localized(Strptime(date_str, "%d/%m/%y"), tz, is_end_date)
    ELSE IF Strptime(date_str, "%d/%m/%Y") # NoneDt
         THEN Localized(Strptime(date_str, "%d/%m/%Y"), tz, is_end_date)
    ELSE NoDate

\* line 264: the warning of a non-blank cell that matches neither format
DateWarnings(date_str, tz) ==
    IF date_str.kind # "blank" /\ parse_date(date_str, tz, FALSE) = NoDate
    THEN <<[level |-> "warning", tpl |-> "bad_date_format"]>>
    ELSE <<>>

(***************************************************************************)
(* Messages.  An outcome message is [tpl, name, status, text]: the         *)
(* f-string it was made from, the employee name or key put into it, and    *)
(* the remote status (0 when the f-string has none) and remote text        *)
(* (response body or exception text) put into it.  "x in message" is       *)
(* decided from the literal text of the f-string and from the remote text; *)
(* the names of the model hold none of the three markers.                  *)
(*   "WARN"            the warning sign of lines 286, 391, 397, 409, 417   *)
(*   "Oshibka"         "Oshibka" (error), lines 287 and 206                *)
(*   "Sobytie sozdano" "Sobytie sozdano" (event created), line 283         *)
(***************************************************************************)
TemplateMarkers(tpl) ==
    CASE tpl = "skip_no_type"        -> {"WARN"}              \* line 391
      [] tpl = "skip_bad_dates"      -> {"WARN"}              \* line 397
      [] tpl = "skip_no_employee"    -> {"WARN"}              \* line 409
      [] tpl = "skip_no_such_type"   -> {"WARN"}              \* line 417
      [] tpl = "created"             -> {"Sobytie sozdano"}   \* line 283
      [] tpl = "skip_fired"          -> {"WARN"}              \* line 286
      [] tpl = "create_error"        -> {"Oshibka"}           \* line 287
      [] tpl = "create_exception"    -> {}                    \* line 289
      [] tpl = "deleted"             -> {}                    \* line 204
      [] tpl = "delete_error"        -> {"Oshibka"}           \* line 206
      [] tpl = "delete_exception"    -> {}                    \* line 208
      [] OTHER                       -> {}

\* the marker words that occur in a remote text
TextMarkers(text) ==
    CASE text = "Employee 7 is fired"  -> {"Employee", "is fired"}
      [] text = "Employee not found"   -> {"Employee"}
      [] OTHER                         -> {}

\* Python's  marker in message
Contains(msg, marker) == marker \in TemplateMarkers(msg.tpl) \cup TextMarkers(msg.text)

Msg(tpl, name, text) == [tpl |-> tpl, name |-> name, status |-> 0, text |-> text]

Box(level, tpl) == [level |-> level, tpl |-> tpl]

\* lines 424-428 and 485-489: how the result list is shown
Render(res) ==
    [i \in 1..Len(res) |->
        Box(IF Contains(res[i], "Oshibka") \/ Contains(res[i], "WARN")
            THEN "error" ELSE "success", res[i].tpl)]

Count(res, P(_)) == Cardinality({i \in 1..Len(res) : P(res[i])})

\* lines 431-433
Summarize(total, res) ==
    [total   |-> total,
     created |-> Count(res, LAMBDA m : Contains(m, "Sobytie sozdano")),
     skipped |-> Count(res, LAMBDA m : Contains(m, "WARN") \/ Contains(m, "Oshibka"))]

NoSummary == [total |-> 0 - 1, created |-> 0 - 1, skipped |-> 0 - 1]

(***************************************************************************)
(* Remote calls.  A response is [exc, status, text, json]: exc says that   *)
(* requests raised instead of returning, text is r.text or str(e), json is *)
(* the parsed body.  A request of the log is [op, n, employeeId, typeId,   *)
(* start, end, eventId], n being the data row it was issued for.           *)
(***************************************************************************)
Resp(exc, status, text, json) == [exc |-> exc, status |-> status, text |-> text, json |-> json]

\* no create call was made for the row just visited
NoAnswer == Resp(FALSE, 0, "", <<>>)

Call(op) == [op |-> op, n |-> 0, employeeId |-> "", typeId |-> "",
             start |-> NoDate, end |-> NoDate, eventId |-> ""]

\* line 145: {item['name']: item['id'] for item in types}
RECURSIVE BuildTypes(_, _)
BuildTypes(d, items) ==
    IF items = <<>> THEN d
    ELSE BuildTypes(Put(d, Head(items).name, Head(items).id), Tail(items))

\* lines 140-151
load_calendar_types(r) ==
    IF r.exc THEN [value |-> EmptyDict, ui |-> <<Box("error", "types_exception")>>]
    ELSE IF r.status = 200
    THEN [value |-> BuildTypes(EmptyDict, r.json), ui |-> <<>>]
    ELSE [value |-> EmptyDict, ui |-> <<Box("error", "types_status")>>]

\* lines 210-243
get_employees(r) ==
    IF r.exc THEN [value |-> EmptyDict, ui |-> <<Box("error", "employees_exception")>>]
    ELSE IF r.status = 200
    THEN [value |-> BuildEmployeeDict(EmptyDict, r.json), ui |-> SurnameWarnings(r.json)]
    ELSE [value |-> EmptyDict, ui |-> <<Box("error", "employees_status")>>]

\* a classification that takes every 400 for a fired employee
create_schedule_any_400(r, employee_name) ==
    IF r.exc
    THEN [success |-> FALSE, message |-> Msg("create_exception", employee_name, r.text)]
    ELSE IF r.status \in {200, 201}
    THEN [success |-> TRUE, message |-> Msg("created", employee_name, "")]
    ELSE IF r.status = 400
    THEN [success |-> FALSE, message |-> Msg("skip_fired", employee_name, "")]
    ELSE [success |-> FALSE,
          message |-> [Msg("create_error", employee_name, r.text) EXCEPT !.status = r.status]]

\* lines 268-289
create_schedule(r, employee_name) ==
    IF r.exc
    THEN [success |-> FALSE, message |-> Msg("create_exception", employee_name, r.text)]
    ELSE IF r.status \in {200, 201}
    THEN [success |-> TRUE, message |-> Msg("created", employee_name, "")]
    ELSE IF r.status = 400 /\ "Employee" \in TextMarkers(r.text)
            /\ "is fired" \in TextMarkers(r.text)
    THEN [success |-> FALSE, message |-> Msg("skip_fired", employee_name, "")]
    ELSE [success |-> FALSE,
          message |-> [Msg("create_error", employee_name, r.text) EXCEPT !.status = r.status]]

(***************************************************************************)
(* Inputs of the two orchestrators.                                        *)
(***************************************************************************)
required_columns == {S("Familiya"), S("Tip"), S("Data1"), S("Data2")}   \* line 327

AllColumns == required_columns \cup {S("Imya"), S("Otchestvo")}

Blank == [kind |-> "blank", d |-> 0, m |-> 0, y |-> 0, yd |-> 0]
NotADate == [kind |-> "text", d |-> 0, m |-> 0, y |-> 0, yd |-> 0]
Dmy(d, m, y, yd) == [kind |-> "dmy", d |-> d, m |-> m, y |-> y, yd |-> yd]

Row(surname, name, middle, type, d1, d2) ==
    [Familiya |-> surname, Imya |-> name, Otchestvo |-> middle,
     Tip |-> type, Data1 |-> d1, Data2 |-> d2]

\* the data rows an uploaded file is made of: one per branch of the row loop
RowPool ==
    { Row(S("Sidorova"), EmptyStr, EmptyStr, S("Otpusk"), Dmy(1, 7, 25, 2), Dmy(14, 7, 25, 2)),
      Row(S("Ivanov"), S("Aleksandr"), S("Konstantinovich"), <<"Otpusk", "">>,
          Dmy(14, 8, 2025, 4), Dmy(30, 8, 2025, 4)),
      Row(S("Sidorova"), EmptyStr, EmptyStr, EmptyStr, Dmy(1, 7, 25, 2), Dmy(14, 7, 25, 2)),
      Row(S("Sidorova"), EmptyStr, EmptyStr, S("Otpusk"), Dmy(1, 7, 25, 2), Dmy(31, 6, 25, 2)),
      Row(S("Petrova"), S("Viktoriya"), EmptyStr, S("Otpusk"), Dmy(30, 6, 25, 2), Dmy(13, 7, 25, 2)),
      Row(S("Sidorova"), EmptyStr, EmptyStr, S("Bolnichnyi"), Blank, Dmy(14, 7, 25, 2)),
      Row(S("Sidorova"), EmptyStr, EmptyStr, S("Bolnichnyi"), Dmy(1, 7, 25, 2), Dmy(14, 7, 25, 2)) }

RECURSIVE SeqsUpTo(_, _)
SeqsUpTo(pool, n) ==
    IF n = 0 THEN {<<>>}
    ELSE LET shorter == SeqsUpTo(pool, n - 1)
         IN  shorter \cup {Append(q, x) : q \in shorter, x \in pool}

CsvFile(encoding, delimiter, header, rows) ==
    [encoding |-> encoding, delimiter |-> delimiter, header |-> header, rows |-> rows]

NoFile == CsvFile("none", "", {}, <<>>)

SampleRows == <<CHOOSE r \in RowPool : r.Familiya = S("Ivanov")>>

\* the files the operator may upload: every sequence of up to MaxRows rows under a
\* full ';' header, and one file per way a header can differ
Files ==
    {CsvFile("utf-8", ";", AllColumns, rows) : rows \in SeqsUpTo(RowPool, MaxRows)}
    \cup { CsvFile("utf-8-sig", ",", {<<"", "Familiya">>, <<"Tip", "">>, S("Data1"), S("Data2")},
                   SampleRows),
           CsvFile("utf-8", ";", AllColumns \ {S("Tip")}, SampleRows),
           CsvFile("utf-8", ",", AllColumns \ {S("Data2")}, SampleRows),
           CsvFile("utf-8", "|", AllColumns, SampleRows),
           CsvFile("cp1251", ";", AllColumns, SampleRows) }

TimeZones == {"Europe/Moscow", "America/Bogota"}

TypesResponses ==
    { Resp(TRUE, 0, "Connection timed out", <<>>),
      Resp(FALSE, 401, "Unauthorized", <<>>),
      Resp(FALSE, 200, "", <<>>),
      Resp(FALSE, 200, "", <<[name |-> S("Otpusk"), id |-> "type-1"]>>),
      Resp(FALSE, 200, "", << [name |-> S("Otpusk"), id |-> "type-1"],
                              [name |-> S("Bolnichnyi"), id |-> "type-2"] >>) }

Employee(id, last, first, middle, locs) ==
    [id |-> id, lastName |-> last, firstName |-> first, middleName |-> middle,
     locationIds |-> locs]

EmployeesResponses ==
    { Resp(TRUE, 0, "Connection timed out", <<>>),
      Resp(FALSE, 500, "Internal Server Error", <<>>),
      Resp(FALSE, 200, "", <<>>),
      Resp(FALSE, 200, "", <<Employee("emp-0", EmptyStr, S("Anna"), EmptyStr, {"loc-1"})>>),
      Resp(FALSE, 200, "",
           <<Employee("emp-3", S("Petrova"), S("Viktoriya"), S("Olegovna"), {"loc-2"})>>),
      Resp(FALSE, 200, "",
           << Employee("emp-1", S("Sidorova"), EmptyStr, EmptyStr, {"loc-1"}),
              Employee("emp-2", <<"Ivanov", "">>, S("Aleksandr"), S("Konstantinovich"), {"loc-1"}) >>) }

CreateResponses ==
    { Resp(FALSE, 200, "", <<>>),
      Resp(FALSE, 201, "", <<>>),
      Resp(FALSE, 400, "Employee 7 is fired", <<>>),
      Resp(FALSE, 500, "Internal Server Error", <<>>),
      Resp(TRUE, 0, "Connection timed out", <<>>) }

(***************************************************************************)
(* CSV handling.                                                           *)
(***************************************************************************)
\* lines 14-21: the encoding the bytes decode under
_decode_uploaded_bytes(file) ==
    IF file.encoding \in {"utf-8-sig", "utf-8"} THEN "utf-8-sig" ELSE "latin-1"

\* lines 23-25
_normalize_fields(fields) == {Strip(f) : f \in fields}

\* the header fields a reader sees when it splits the header line at delim: with
\* another delimiter than the file's the whole line is one field
FieldsUnder(file, delim) ==
    IF delim = file.delimiter THEN file.header ELSE {S("<header line>")}

HasRequired(file, delim) == required_columns \subseteq _normalize_fields(FieldsUnder(file, delim))

\* a preview that accepts every file
PreviewNotChecked(file) == TRUE

\* lines 330-343: pandas raises on bytes that are not UTF-8, under both encodings
PreviewFound(file) ==
    \E enc \in {"utf-8-sig", "utf-8"} : \E delim \in {";", ","} :
        /\ file.encoding \in {"utf-8-sig", "utf-8"}
        /\ HasRequired(file, delim)

\* lines 372-378: the DictReader of the main pass has all the columns
ReaderFound(file) == HasRequired(file, ";") \/ HasRequired(file, ",")

(***************************************************************************)
(* The script.  Streamlit runs main() from its first line on every         *)
(* interaction of the operator; the boxes of the previous run are dropped. *)
(***************************************************************************)
Init ==
    /\ pc = "start"
    /\ api_key = ""
    /\ timezone = "Europe/Moscow"
    /\ button = "none"
    /\ uploaded_file = NoFile
    /\ calendar_types = EmptyDict
    /\ employees = EmptyDict
    /\ rowIdx = 0
    /\ results = <<>>
    /\ summary = NoSummary
    /\ locations = EmptyDict
    /\ location_id = ""
    /\ employee_ids = <<>>
    /\ event_ids = <<>>
    /\ evIdx = 0
    /\ calls = <<>>
    /\ ui = <<>>
    /\ empList = <<>>
    /\ answer = NoAnswer

\* the operator acts on a widget: the script is run again
Interact ==
    /\ pc = "done"
    /\ pc' = "start"
    /\ api_key' = ""
    /\ timezone' = "Europe/Moscow"
    /\ button' = "none"
    /\ uploaded_file' = NoFile
    /\ calendar_types' = EmptyDict
    /\ employees' = EmptyDict
    /\ rowIdx' = 0
    /\ results' = <<>>
    /\ summary' = NoSummary
    /\ locations' = EmptyDict
    /\ location_id' = ""
    /\ employee_ids' = <<>>
    /\ event_ids' = <<>>
    /\ evIdx' = 0
    /\ calls' = <<>>
    /\ ui' = <<>>
    /\ empList' = <<>>
    /\ answer' = NoAnswer

\* lines 295-354: main() from its first line to the first remote call; the
\* widgets hand over what the operator has set
Main(key, tz, btn, file) ==
    /\ pc = "start"
    /\ api_key' = key
    /\ timezone' = tz
    /\ button' = btn
    /\ uploaded_file' = file
    /\ IF key = ""
       THEN /\ ui' = <<Box("warning", "enter_token")>>                 \* lines 298-300
            /\ pc' = "done"
       ELSE LET cleared == IF btn = "clear"                            \* lines 308-310
                           THEN <<Box("success", "cache_cleared")>> ELSE <<>>
            IN  IF btn # "create"
                THEN /\ ui' = cleared
                     /\ pc' = "tab2"
                ELSE IF file = NoFile
                THEN /\ ui' = Append(cleared, Box("error", "upload_csv"))   \* line 323
                     /\ pc' = "tab2"
                ELSE IF ~PreviewFound(file)
                THEN /\ ui' = Append(cleared, Box("error", "missing_columns"))  \* lines 345-347
                     /\ pc' = "done"
                ELSE /\ ui' = cleared
                     /\ pc' = "load_types"
    /\ UNCHANGED <<answer, calendar_types, employees, rowIdx, results, summary, locations,
                   location_id, employee_ids, event_ids, evIdx, calls, empList>>

\* an event-type load whose failure does not end the action
LoadTypesNoAbort(r) ==
    /\ pc = "load_types"
    /\ calls' = Append(calls, Call("GET types"))
    /\ calendar_types' = load_calendar_types(r).value
    /\ ui' = ui \o load_calendar_types(r).ui
    /\ pc' = "load_employees"
    /\ UNCHANGED <<answer, api_key, timezone, button, uploaded_file, employees, rowIdx, results,
                   summary, locations, location_id, employee_ids, event_ids, evIdx,
                   empList>>

\* lines 357-360
LoadTypes(r) ==
    /\ pc = "load_types"
    /\ calls' = Append(calls, Call("GET types"))
    /\ calendar_types' = load_calendar_types(r).value
    /\ IF calendar_types' = EmptyDict
       THEN /\ ui' = ui \o load_calendar_types(r).ui \o <<Box("error", "types_not_loaded")>>
            /\ pc' = "done"
       ELSE /\ ui' = ui \o load_calendar_types(r).ui
            /\ pc' = "load_employees"
    /\ UNCHANGED <<answer, api_key, timezone, button, uploaded_file, employees, rowIdx, results,
                   summary, locations, location_id, employee_ids, event_ids, evIdx,
                   empList>>

\* lines 362-380
LoadEmployees(r) ==
    /\ pc = "load_employees"
    /\ calls' = Append(calls, Call("GET employees"))
    /\ employees' = get_employees(r).value
    /\ IF employees' = EmptyDict
       THEN /\ ui' = ui \o get_employees(r).ui \o <<Box("error", "employees_not_loaded")>>
            /\ pc' = "done"
            /\ rowIdx' = rowIdx
       ELSE IF ~ReaderFound(uploaded_file)
       THEN /\ ui' = ui \o get_employees(r).ui \o <<Box("error", "missing_columns")>>
            /\ pc' = "done"
            /\ rowIdx' = rowIdx
       ELSE /\ ui' = ui \o get_employees(r).ui
            /\ pc' = "rows"
            /\ rowIdx' = 1
    /\ empList' = IF ~r.exc /\ r.status = 200 THEN r.json ELSE <<>>
    /\ UNCHANGED <<answer, api_key, timezone, button, uploaded_file, calendar_types, results,
                   summary, locations, location_id, employee_ids, event_ids, evIdx>>

\* a create call that is sent a second time
CreateCallTwice(answers, n, employee_data, event_type_id, start_date, end_date) ==
    \E r \in answers :
        LET c == [Call("POST create") EXCEPT
                     !.n = n, !.employeeId = employee_data.id, !.typeId = event_type_id,
                     !.start = start_date, !.end = end_date]
        IN  /\ calls' = calls \o <<c, c>>
            /\ answer' = r
            /\ results' = Append(results, create_schedule(r, employee_data.name).message)

\* lines 420-421: the remote create call of a row that passed the four checks;
\* answers are the answers the remote side may give
CreateCall(answers, n, employee_data, event_type_id, start_date, end_date) ==
    \E r \in answers :
        /\ calls' = Append(calls, [Call("POST create") EXCEPT
                                      !.n = n, !.employeeId = employee_data.id,
                                      !.typeId = event_type_id,
                                      !.start = start_date, !.end = end_date])
        /\ answer' = r
        /\ results' = Append(results, create_schedule(r, employee_data.name).message)

\* a skipped row that leaves no message
SkipRowSilently(message) ==
    /\ results' = results
    /\ calls' = calls
    /\ answer' = NoAnswer

\* a row that is skipped: one message, no request
SkipRow(message) ==
    /\ results' = Append(results, message)
    /\ calls' = calls
    /\ answer' = NoAnswer

\* lines 382-421: one pass of the row loop
ProcessRowWith(answers) ==
    /\ pc = "rows"
    /\ rowIdx <= Len(uploaded_file.rows)
    /\ LET header          == _normalize_fields(uploaded_file.header)
           rown            == uploaded_file.rows[rowIdx]
           surname         == Cell(header, rown, "Familiya")
           name            == Cell(header, rown, "Imya")
           middle_name     == Cell(header, rown, "Otchestvo")
           event_type_name == Cell(header, rown, "Tip")
           start_date      == parse_date(rown.Data1, timezone, FALSE)
           end_date        == parse_date(rown.Data2, timezone, TRUE)
           full_name       == RowKey(surname, name, middle_name)
           employee_data   == DictGet(employees, full_name, NoEmployee)
           event_type_id   == DictGet(calendar_types, event_type_name, "")
       IN  IF ~Truthy(event_type_name)
           THEN /\ SkipRow(Msg("skip_no_type", Strip(Join3(surname, name, middle_name)), ""))
                /\ ui' = ui
           ELSE /\ ui' = ui \o DateWarnings(rown.Data1, timezone)
                            \o DateWarnings(rown.Data2, timezone)
                /\ IF start_date = NoDate \/ end_date = NoDate
                   THEN SkipRow(Msg("skip_bad_dates", Strip(Join3(surname, name, middle_name)), ""))
                   ELSE IF employee_data = NoEmployee
                   THEN SkipRow(Msg("skip_no_employee", full_name, ""))
                   ELSE IF event_type_id = ""
                   THEN SkipRow(Msg("skip_no_such_type", event_type_name, ""))
                   ELSE CreateCall(answers, rowIdx, employee_data, event_type_id,
                                   start_date, end_date)
    /\ rowIdx' = rowIdx + 1
    /\ UNCHANGED <<pc, api_key, timezone, button, uploaded_file, calendar_types, employees,
                   summary, locations, location_id, employee_ids, event_ids, evIdx,
                   empList>>

ProcessRow == ProcessRowWith(CreateResponses)

\* lines 423-437: the loop is over, the results and the summary are shown
FinishCreate ==
    /\ pc = "rows"
    /\ rowIdx > Len(uploaded_file.rows)
    /\ summary' = Summarize(Len(uploaded_file.rows), results)
    /\ ui' = ui \o Render(results) \o <<Box("info", "summary")>>
    /\ pc' = "tab2"
    /\ UNCHANGED <<answer, api_key, timezone, button, uploaded_file, calendar_types, employees,
                   rowIdx, results, locations, location_id, employee_ids, event_ids,
                   evIdx, calls, empList>>

(***************************************************************************)
(* Delete path.                                                            *)
(***************************************************************************)
LocationsResponses ==
    { Resp(TRUE, 0, "Connection timed out", <<>>),
      Resp(FALSE, 403, "Forbidden", <<>>),
      Resp(FALSE, 200, "", <<>>),
      Resp(FALSE, 200, "",
           << [name |-> "Sklad", id |-> "loc-1"],
              [name |-> "Ofis", id |-> "loc-2"],
              [name |-> "Arhiv", id |-> ""] >>) }

EventPool == {"ev-1", "ev-2"}

EventsResponses ==
    { Resp(TRUE, 0, "Connection timed out", <<>>),
      Resp(FALSE, 500, "Internal Server Error", <<>>) }
    \cup {Resp(FALSE, 200, "", ids) : ids \in SeqsUpTo(EventPool, MaxEvents)}

DeleteResponses ==
    { Resp(FALSE, 200, "", <<>>),
      Resp(FALSE, 204, "", <<>>),
      Resp(FALSE, 404, "Not Found", <<>>),
      Resp(TRUE, 0, "Connection timed out", <<>>) }

\* line 158: {loc['name']: loc['id'] for loc in locations}
RECURSIVE BuildLocations(_, _)
BuildLocations(d, locs) ==
    IF locs = <<>> THEN d
    ELSE BuildLocations(Put(d, Head(locs).name, Head(locs).id), Tail(locs))

\* lines 153-164
get_locations(r) ==
    IF r.exc THEN [value |-> EmptyDict, ui |-> <<Box("error", "locations_exception")>>]
    ELSE IF r.status = 200
    THEN [value |-> BuildLocations(EmptyDict, r.json), ui |-> <<>>]
    ELSE [value |-> EmptyDict, ui |-> <<Box("error", "locations_status")>>]

\* line 171: the ids of the employees of the location, in list order
RECURSIVE FilterByLocation(_, _)
FilterByLocation(emps, loc) ==
    IF emps = <<>> THEN <<>>
    ELSE (IF loc \in Head(emps).locationIds THEN <<Head(emps).id>> ELSE <<>>)
         \o FilterByLocation(Tail(emps), loc)

\* lines 166-179
get_employees_by_location(r, loc) ==
    IF r.exc THEN [value |-> <<>>, ui |-> <<Box("error", "employees_exception")>>]
    ELSE IF r.status = 200
    THEN [value |-> FilterByLocation(r.json, loc), ui |-> <<Box("info", "found_n_employees")>>]
    ELSE [value |-> <<>>, ui |-> <<Box("error", "employees_status")>>]

\* lines 181-197; requested says whether the request of line 187 was sent
get_calendar_events(r, ids) ==
    IF ids = <<>>
    THEN [value |-> <<>>, ui |-> <<Box("info", "no_employees_for_events")>>, requested |-> FALSE]
    ELSE IF r.exc
    THEN [value |-> <<>>, ui |-> <<Box("error", "events_exception")>>, requested |-> TRUE]
    ELSE IF r.status = 200
    THEN [value |-> r.json, ui |-> <<Box("info", "got_n_events")>>, requested |-> TRUE]
    ELSE [value |-> <<>>, ui |-> <<Box("error", "events_status")>>, requested |-> TRUE]

\* lines 199-208
delete_calendar_event(r, event_id) ==
    IF r.exc
    THEN [success |-> FALSE, message |-> Msg("delete_exception", S(event_id), r.text)]
    ELSE IF r.status \in {200, 204}
    THEN [success |-> TRUE, message |-> Msg("deleted", S(event_id), "")]
    ELSE [success |-> FALSE,
          message |-> [Msg("delete_error", S(event_id), r.text) EXCEPT !.status = r.status]]

\* lines 455-457 and 464-468: the default range of the two date inputs, as UTC
RangeStart(tz) ==
    Strftime(ToUtc([Y |-> 2025, M |-> 7, D |-> 1, h |-> 0, mi |-> 0, s |-> 0, us |-> 0], tz))

RangeEnd(tz) ==
    Strftime(ToUtc([Y |-> 2025, M |-> 12, D |-> 31, h |-> 23, mi |-> 59, s |-> 59,
                    us |-> 999999], tz))

\* a second tab whose button does not look at the location id
Tab2NoLocationCheck(r, location_name) ==
    /\ pc = "tab2"
    /\ calls' = Append(calls, Call("GET locations"))
    /\ locations' = get_locations(r).value
    /\ IF locations' = EmptyDict
       THEN /\ ui' = ui \o get_locations(r).ui \o <<Box("error", "locations_not_loaded")>>
            /\ location_id' = location_id
            /\ pc' = "done"
       ELSE /\ location_name \in DOMAIN locations'
            /\ location_id' = locations'[location_name]
            /\ ui' = ui \o get_locations(r).ui
            /\ pc' = IF button # "delete" THEN "done" ELSE "del_employees"
    /\ UNCHANGED <<answer, api_key, timezone, button, uploaded_file, calendar_types, employees,
                   rowIdx, results, summary, employee_ids, event_ids, evIdx, empList>>

\* lines 445-462: the second tab is built in every run; its button starts the
\* delete action
Tab2(r, location_name) ==
    /\ pc = "tab2"
    /\ calls' = Append(calls, Call("GET locations"))
    /\ locations' = get_locations(r).value
    /\ IF locations' = EmptyDict
       THEN /\ ui' = ui \o get_locations(r).ui \o <<Box("error", "locations_not_loaded")>>
            /\ location_id' = location_id
            /\ pc' = "done"
       ELSE /\ location_name \in DOMAIN locations'
            /\ location_id' = locations'[location_name]
            /\ IF button # "delete"
               THEN /\ ui' = ui \o get_locations(r).ui
                    /\ pc' = "done"
               ELSE IF location_id' = ""
               THEN /\ ui' = ui \o get_locations(r).ui \o <<Box("error", "choose_location")>>
                    /\ pc' = "done"
               ELSE /\ ui' = ui \o get_locations(r).ui
                    /\ pc' = "del_employees"
    /\ UNCHANGED <<answer, api_key, timezone, button, uploaded_file, calendar_types, employees,
                   rowIdx, results, summary, employee_ids, event_ids, evIdx, empList>>

\* lines 470-473
DelEmployees(r) ==
    /\ pc = "del_employees"
    /\ calls' = Append(calls, Call("GET employees"))
    /\ employee_ids' = get_employees_by_location(r, location_id).value
    /\ IF employee_ids' = <<>>
       THEN /\ ui' = ui \o get_employees_by_location(r, location_id).ui
                        \o <<Box("error", "no_employees_for_location")>>
            /\ pc' = "done"
       ELSE /\ ui' = ui \o get_employees_by_location(r, location_id).ui
            /\ pc' = "del_query"
    /\ empList' = IF ~r.exc /\ r.status = 200 THEN r.json ELSE <<>>
    /\ UNCHANGED <<answer, api_key, timezone, button, uploaded_file, calendar_types, employees,
                   rowIdx, results, summary, locations, location_id, event_ids, evIdx>>

\* lines 475-479
DelQuery(r) ==
    /\ pc = "del_query"
    /\ calls' = IF get_calendar_events(r, employee_ids).requested
                THEN Append(calls, [Call("POST query") EXCEPT
                                       !.start = RangeStart(timezone),
                                       !.end = RangeEnd(timezone)])
                ELSE calls
    /\ event_ids' = get_calendar_events(r, employee_ids).value
    /\ ui' = ui \o get_calendar_events(r, employee_ids).ui \o <<Box("info", "found_n_events")>>
    /\ results' = <<>>
    /\ evIdx' = 1
    /\ pc' = "del_loop"
    /\ UNCHANGED <<answer, api_key, timezone, button, uploaded_file, calendar_types, employees,
                   rowIdx, summary, locations, location_id, employee_ids, empList>>

\* a delete loop that is left at the first failed delete
DelEventStopOnFailure(r) ==
    /\ pc = "del_loop"
    /\ evIdx <= Len(event_ids)
    /\ calls' = Append(calls, [Call("DELETE event") EXCEPT
                                  !.n = evIdx, !.eventId = event_ids[evIdx]])
    /\ results' = Append(results, delete_calendar_event(r, event_ids[evIdx]).message)
    /\ evIdx' = IF delete_calendar_event(r, event_ids[evIdx]).success
                THEN evIdx + 1 ELSE Len(event_ids) + 1
    /\ UNCHANGED <<answer, pc, api_key, timezone, button, uploaded_file, calendar_types, employees,
                   rowIdx, summary, locations, location_id, employee_ids, event_ids, ui,
                   empList>>

\* lines 480-482: one pass of the delete loop
DelEvent(r) ==
    /\ pc = "del_loop"
    /\ evIdx <= Len(event_ids)
    /\ calls' = Append(calls, [Call("DELETE event") EXCEPT
                                  !.n = evIdx, !.eventId = event_ids[evIdx]])
    /\ results' = Append(results, delete_calendar_event(r, event_ids[evIdx]).message)
    /\ evIdx' = evIdx + 1
    /\ UNCHANGED <<answer, pc, api_key, timezone, button, uploaded_file, calendar_types, employees,
                   rowIdx, summary, locations, location_id, employee_ids, event_ids, ui,
                   empList>>

\* lines 484-489
FinishDelete ==
    /\ pc = "del_loop"
    /\ evIdx > Len(event_ids)
    /\ ui' = ui \o Render(results)
    /\ pc' = "done"
    /\ UNCHANGED <<answer, api_key, timezone, button, uploaded_file, calendar_types, employees,
                   rowIdx, results, summary, locations, location_id, employee_ids,
                   event_ids, evIdx, calls, empList>>

Next ==
    \/ Interact
    \/ \E key \in {"", "token"}, tz \in TimeZones, btn \in {"none", "clear", "create", "delete"} :
          \* the uploaded file is read by the branch of the create button only (line 321)
          \E file \in IF btn = "create" THEN Files \cup {NoFile} ELSE {NoFile} :
              Main(key, tz, btn, file)
    \/ \E r \in TypesResponses : LoadTypes(r)
    \/ \E r \in EmployeesResponses : LoadEmployees(r)
    \/ ProcessRow
    \/ FinishCreate
    \/ \E r \in LocationsResponses, location_name \in {"Sklad", "Ofis", "Arhiv"} :
            Tab2(r, location_name)
    \/ \E r \in EmployeesResponses : DelEmployees(r)
    \/ \E r \in EventsResponses : DelQuery(r)
    \/ \E r \in DeleteResponses : DelEvent(r)
    \/ FinishDelete

Spec == Init /\ [][Next]_vars

(***************************************************************************)
(* Properties.                                                             *)
(***************************************************************************)
Boxes(u) == {u[k] : k \in 1..Len(u)}

CallsOf(op) == SelectSeq(calls, LAMBDA c : c.op = op)

InCreateRun == button = "create" /\ rowIdx >= 1

DataRows == uploaded_file.rows

CreateCallsFor(i) ==
    Cardinality({k \in 1..Len(calls) : calls[k].op = "POST create" /\ calls[k].n = i})

\* the four checks of a data row: an event-type name, two dates that parse, a
\* name key of the employee lookup, a type name of the type lookup
RowPassesChecks(i) ==
    LET r   == DataRows[i]
        hdr == _normalize_fields(uploaded_file.header)
        key == RowKey(Cell(hdr, r, "Familiya"), Cell(hdr, r, "Imya"), Cell(hdr, r, "Otchestvo"))
    IN  /\ Strip(r.Tip) # EmptyStr
        /\ parse_date(r.Data1, timezone, FALSE) # NoDate
        /\ parse_date(r.Data2, timezone, TRUE) # NoDate
        /\ key \in DOMAIN employees
        /\ Strip(r.Tip) \in DOMAIN calendar_types

\* C1: in the create path a row that has been visited has exactly one create
\* call if it passes the four checks and none otherwise; a row that has not been
\* visited has none; no other run issues a create call.
C1_CreateIffRowValid ==
    /\ InCreateRun =>
          \A i \in 1..Len(DataRows) :
              CreateCallsFor(i) = IF i < rowIdx /\ RowPassesChecks(i) THEN 1 ELSE 0
    /\ Len(CallsOf("POST create")) =
          Cardinality({i \in 1..Len(DataRows) : InCreateRun /\ i < rowIdx /\ RowPassesChecks(i)})

\* a finished create run whose first row was skipped for want of an employee and
\* whose second row was sent
C1_Witness ==
    /\ pc = "tab2" /\ InCreateRun /\ Len(DataRows) = 2
    /\ results[1].tpl = "skip_no_employee" /\ CreateCallsFor(1) = 0
    /\ RowPassesChecks(2) /\ CreateCallsFor(2) = 1

\* the outcome messages a row can end in, by the first check it fails
OutcomesOfRow(i) ==
    LET r == DataRows[i]
    IN  IF Strip(r.Tip) = EmptyStr THEN {"skip_no_type"}
        ELSE IF parse_date(r.Data1, timezone, FALSE) = NoDate
                \/ parse_date(r.Data2, timezone, TRUE) = NoDate THEN {"skip_bad_dates"}
        ELSE IF ~RowPassesChecks(i)
        THEN {"skip_no_employee", "skip_no_such_type"}
        ELSE {"created", "skip_fired", "create_error", "create_exception"}

C3_MissingColumnsAbort ==
    ( /\ pc # "start" /\ api_key # "" /\ button = "create" /\ uploaded_file # NoFile
      /\ ~HasRequired(uploaded_file, ";") /\ ~HasRequired(uploaded_file, ",") )
    => /\ pc = "done"
       /\ calls = <<>>
       /\ rowIdx = 0 /\ results = <<>>
       /\ ui = <<Box("error", "missing_columns")>>

\* a create action on a ';' file without the event-type column has ended
C3_Witness ==
    /\ pc = "done" /\ api_key # "" /\ button = "create"
    /\ uploaded_file.delimiter = ";" /\ S("Tip") \notin uploaded_file.header
    /\ ~HasRequired(uploaded_file, ";") /\ ~HasRequired(uploaded_file, ",")

FailureTemplates == {"create_error", "create_exception", "delete_error", "delete_exception"}

\* C4: every failed create call and every failed delete call is shown as an
\* error, and the summary's created count and skipped/errored count add up to
\* the number of outcomes.
C4_FailuresAreErrors ==
    /\ \A b \in Boxes(ui) : b.tpl \in FailureTemplates => b.level = "error"
    /\ summary # NoSummary => summary.created + summary.skipped = Len(results)

\* C5: when the employees request of the delete path succeeds and no employee
\* is of the selected location, no event query and no delete call is issued and
\* the operator sees an informational box and no error box.
C5_NoEmployeesIsInformational ==
    ( /\ pc = "done" /\ button = "delete"
      /\ Box("info", "found_n_employees") \in Boxes(ui)
      /\ \A k \in 1..Len(empList) : location_id \notin empList[k].locationIds )
    => /\ CallsOf("POST query") = <<>>
       /\ CallsOf("DELETE event") = <<>>
       /\ \E b \in Boxes(ui) : b.level = "info"
       /\ \A b \in Boxes(ui) : b.level # "error"

InDeleteLoop == button = "delete" /\ evIdx >= 1

\* C6: in the delete path the events of the query are deleted one by one in
\* the returned order, one delete call and one outcome per event whatever the
\* earlier deletes gave; the loop is left only after the last event; an empty
\* answer of the query gives no delete call and no error box.
C6_OneDeletePerEvent ==
    /\ InDeleteLoop =>
          /\ evIdx <= Len(event_ids) + 1
          /\ Len(CallsOf("DELETE event")) = evIdx - 1
          /\ Len(results) = evIdx - 1
          /\ \A k \in 1..(evIdx - 1) :
                /\ CallsOf("DELETE event")[k].eventId = event_ids[k]
                /\ results[k].name = S(event_ids[k])
          /\ pc = "done" => evIdx = Len(event_ids) + 1
          /\ (pc = "done" /\ event_ids = <<>> /\ Box("info", "got_n_events") \in Boxes(ui))
                => \A b \in Boxes(ui) : b.level # "error"
    /\ ~InDeleteLoop => CallsOf("DELETE event") = <<>>

\* a finished delete run over two events whose first delete met a transport
\* exception and whose second delete succeeded
C6_Witness ==
    /\ pc = "done" /\ InDeleteLoop /\ Len(event_ids) = 2
    /\ results[1].tpl = "delete_exception" /\ results[2].tpl = "deleted"

NoLocationSelected ==
    /\ pc \notin {"start", "tab2"} /\ button = "delete"
    /\ locations # EmptyDict /\ location_id = ""

\* C7 as stated: with an empty API key no remote call is issued, and a delete
\* action without a location id stops with no remote call at all issued in it.
C7_NoCallBeforeConfigurationError ==
    /\ (pc # "start" /\ api_key = "") => calls = <<>>
    /\ NoLocationSelected => (pc = "done" /\ calls = <<>>)

\* C7 amended: with an empty API key no remote call is issued; a delete action
\* without a location id stops with the error, and the one remote call of its
\* run is the locations request that fills the location selector.
C7_OnlyLocationsBeforeConfigurationError ==
    /\ (pc # "start" /\ api_key = "") => (pc = "done" /\ calls = <<>>)
    /\ NoLocationSelected =>
          /\ pc = "done"
          /\ calls = <<Call("GET locations")>>
          /\ ui = <<Box("error", "choose_location")>>

\* a delete action was started on the location that has no id
C7_Witness == NoLocationSelected /\ pc = "done" /\ "Arhiv" \in DOMAIN locations

TypesFailed == \E b \in Boxes(ui) : b.tpl \in {"types_exception", "types_status"}

EmployeesFailed == \E b \in Boxes(ui) : b.tpl \in {"employees_exception", "employees_status"}

LocationsFailed == \E b \in Boxes(ui) : b.tpl \in {"locations_exception", "locations_status"}

\* C8: a failed event-types or employees request of the create path ends the
\* action with no row visited and no create call; a failed locations or
\* employees request of the delete path ends it with no event query and no
\* delete call.
C8_ReferenceFailureIsFatal ==
    /\ (TypesFailed \/ (button = "create" /\ EmployeesFailed)) =>
          /\ pc = "done"
          /\ rowIdx = 0 /\ results = <<>>
          /\ CallsOf("POST create") = <<>>
    /\ (LocationsFailed \/ (button = "delete" /\ EmployeesFailed)) =>
          /\ pc = "done"
          /\ CallsOf("POST query") = <<>>
          /\ CallsOf("DELETE event") = <<>>

\* a create action on a two-row file has ended on a failed event-types request
C8_Witness ==
    /\ pc = "done" /\ button = "create" /\ TypesFailed /\ Len(DataRows) = 2

(***************************************************************************)
(* Name resolver study: the create action on a one-row file, from the      *)
(* point where the event types are loaded, over every employee list of up  *)
(* to MaxEmps employees and every row made of the name parts below.  The   *)
(* employees request answers 200 with the list; the ids follow the         *)
(* position in the list.                                                   *)
(***************************************************************************)
Surnames == {S("Ivanov"), <<"Ivanov", "Ivan">>, EmptyStr}
FirstNames == {EmptyStr, S("Ivan")}
MiddleNames == {EmptyStr, S("Petrovich")}

EmployeeIds == <<"emp-1", "emp-2", "emp-3", "emp-4">>

NameTriples == Surnames \X FirstNames \X MiddleNames

NameEmployeeLists ==
    { [k \in 1..Len(q) |-> Employee(EmployeeIds[k], q[k][1], q[k][2], q[k][3], {"loc-1"})] :
        q \in SeqsUpTo(NameTriples, MaxEmps) }

NameRows ==
    { Row(t[1], t[2], t[3], S("Otpusk"), Dmy(1, 7, 25, 2), Dmy(14, 7, 25, 2)) :
        t \in NameTriples }

InitNames ==
    /\ pc = "load_employees"
    /\ api_key = "token"
    /\ timezone = "Europe/Moscow"
    /\ button = "create"
    /\ uploaded_file \in {CsvFile("utf-8", ";", AllColumns, <<r>>) : r \in NameRows}
    /\ calendar_types = BuildTypes(EmptyDict, <<[name |-> S("Otpusk"), id |-> "type-1"]>>)
    /\ employees = EmptyDict
    /\ rowIdx = 0
    /\ results = <<>>
    /\ summary = NoSummary
    /\ locations = EmptyDict
    /\ location_id = ""
    /\ employee_ids = <<>>
    /\ event_ids = <<>>
    /\ evIdx = 0
    /\ calls = <<Call("GET types")>>
    /\ ui = <<>>
    /\ empList = <<>>
    /\ answer = NoAnswer

NextNames ==
    \/ \E emps \in NameEmployeeLists : LoadEmployees(Resp(FALSE, 200, "", emps))
    \/ ProcessRow
    \/ FinishCreate

SpecNames == InitNames /\ [][NextNames]_vars

\* the name parts of the first data row, as the row loop reads them
RowSurname == Strip(DataRows[1].Familiya)
RowName == Strip(DataRows[1].Imya)
RowMiddle == Strip(DataRows[1].Otchestvo)

\* the employees of the list a create call of the first row was issued for
ResolvedEmployees ==
    {k \in 1..Len(empList) :
        \E c \in 1..Len(calls) :
            /\ calls[c].op = "POST create" /\ calls[c].n = 1
            /\ calls[c].employeeId = empList[k].id}

HasNoGivenNames(emp) == Strip(emp.firstName) = EmptyStr /\ Strip(emp.middleName) = EmptyStr

\* C9: a row with a surname only resolves only to an employee without first
\* and middle name, and a row with a first name never resolves to an employee
\* without first and middle name.
C9_NameBoundary ==
    (InCreateRun /\ rowIdx > 1) =>
        /\ (RowName = EmptyStr /\ RowMiddle = EmptyStr) =>
              \A k \in ResolvedEmployees : HasNoGivenNames(empList[k])
        /\ RowName # EmptyStr =>
              \A k \in ResolvedEmployees : ~HasNoGivenNames(empList[k])

NameOf(emp) == <<Strip(emp.lastName), Strip(emp.firstName), Strip(emp.middleName)>>

\* the keys an employee of the list registers
KeysOf(emp) ==
    IF Strip(emp.lastName) = EmptyStr THEN {}
    ELSE LET keys == EmployeeKeys(NameOf(emp)[1], NameOf(emp)[2], NameOf(emp)[3])
         IN  {keys[k] : k \in 1..Len(keys)}

NoSameNameTwice ==
    \A j, k \in 1..Len(empList) :
        (j # k /\ Strip(empList[j].lastName) # EmptyStr) => NameOf(empList[j]) # NameOf(empList[k])

Reversed(q) == [k \in 1..Len(q) |-> q[Len(q) + 1 - k]]

\* C10: when no two employees of the list bear the same name, every key of the
\* lookup is registered by exactly one employee, and the lookup is the same
\* whatever the order of the list.
C10_KeysAreUnique ==
    (pc \in {"rows", "tab2"} /\ button = "create" /\ NoSameNameTwice) =>
        /\ \A key \in DOMAIN employees :
              Cardinality({k \in 1..Len(empList) : key \in KeysOf(empList[k])}) = 1
        /\ employees = BuildEmployeeDict(EmptyDict, Reversed(empList))

(***************************************************************************)
(* Create call study: the row loop on a one-row file whose row passes the  *)
(* four checks, from the point where both lookups are loaded, over every   *)
(* answer of the create endpoint made of the statuses and bodies below.    *)
(***************************************************************************)
AnswerStatuses == {200, 201, 204, 400, 401, 404, 500}

AnswerBodies == {"", "Employee 7 is fired", "Employee not found", "Internal Server Error"}

ExceptionTexts == {"Connection timed out", "Name or service not known"}

CreateAnswers ==
    {Resp(FALSE, st, body, <<>>) : st \in AnswerStatuses, body \in AnswerBodies}
    \cup {Resp(TRUE, 0, text, <<>>) : text \in ExceptionTexts}

StudyTypes == <<[name |-> S("Otpusk"), id |-> "type-1"]>>

StudyEmployees ==
    << Employee("emp-1", S("Sidorova"), EmptyStr, EmptyStr, {"loc-1"}),
       Employee("emp-2", <<"Ivanov", "">>, S("Aleksandr"), S("Konstantinovich"), {"loc-1"}) >>

\* the state of a create action that has loaded both lookups and is about to
\* read the first row of a one-row file
LoopEntry(tzs, rows) ==
    /\ pc = "rows"
    /\ api_key = "token"
    /\ timezone \in tzs
    /\ button = "create"
    /\ uploaded_file \in {CsvFile("utf-8", ";", AllColumns, <<r>>) : r \in rows}
    /\ calendar_types = BuildTypes(EmptyDict, StudyTypes)
    /\ employees = BuildEmployeeDict(EmptyDict, StudyEmployees)
    /\ rowIdx = 1
    /\ results = <<>>
    /\ summary = NoSummary
    /\ locations = EmptyDict
    /\ location_id = ""
    /\ employee_ids = <<>>
    /\ event_ids = <<>>
    /\ evIdx = 0
    /\ calls = <<Call("GET types"), Call("GET employees")>>
    /\ ui = <<>>
    /\ empList = StudyEmployees
    /\ answer = NoAnswer

SentRows ==
    {r \in RowPool : r.Tip # EmptyStr /\ Strip(r.Tip) = S("Otpusk")
                     /\ r.Familiya \in {S("Sidorova"), S("Ivanov")}
                     /\ parse_date(r.Data2, "Europe/Moscow", TRUE) # NoDate}

InitClassify == LoopEntry(TimeZones, SentRows)

NextClassify ==
    \/ ProcessRowWith(CreateAnswers)
    \/ FinishCreate

SpecClassify == InitClassify /\ [][NextClassify]_vars

\* the four outcomes create_schedule can return
CreateTemplates == {"created", "skip_fired", "create_error", "create_exception"}

\* a body that says the employee is terminated
SaysFired(text) == text = "Employee 7 is fired"

LastOutcome == results[Len(results)]

\* C11: the outcome of a create call follows from the answer: 200 or 201 give
\* the success outcome; 400 with a body saying the employee is fired gives the
\* 'employee fired' skip and not the generic error; every other status gives
\* the generic error with the status and the body, every exception the
\* generic failure with the exception text; the call leaves exactly one
\* outcome.
C11_OutcomeFollowsAnswer ==
    answer # NoAnswer =>
        /\ Len(results) = rowIdx - 1
        /\ Len(CallsOf("POST create")) = Len(SelectSeq(results, LAMBDA m : m.tpl \in CreateTemplates))
        /\ LastOutcome.tpl =
              IF answer.exc THEN "create_exception"
              ELSE IF answer.status \in {200, 201} THEN "created"
              ELSE IF answer.status = 400 /\ SaysFired(answer.text) THEN "skip_fired"
              ELSE "create_error"
        /\ LastOutcome.tpl = "create_error" =>
              (LastOutcome.status = answer.status /\ LastOutcome.text = answer.text)
        /\ LastOutcome.tpl = "create_exception" => LastOutcome.text = answer.text

\* a create call was answered 400 with the fired body and gave the fired skip,
\* and the row loop has ended
C11_Witness ==
    /\ pc = "tab2" /\ answer.status = 400 /\ SaysFired(answer.text)
    /\ LastOutcome.tpl = "skip_fired"

(***************************************************************************)
(* Date study: the row loop on a one-row file whose two date cells are     *)
(* drawn from DatePool, in each zone of StudyZones, from the point where   *)
(* both lookups are loaded.                                                *)
(***************************************************************************)
DatePool ==
    { Dmy(1, 7, 25, 2), Dmy(14, 7, 25, 2), Dmy(1, 1, 25, 2), Dmy(31, 12, 25, 2),
      Dmy(1, 3, 24, 2), Dmy(29, 2, 24, 2), Dmy(1, 3, 2025, 4), Dmy(14, 8, 2025, 4),
      Dmy(31, 6, 25, 2), Dmy(29, 2, 25, 2), Dmy(1, 13, 25, 2), Dmy(1, 7, 25, 3),
      Blank, NotADate }

StudyZones == TimeZones \cup {"UTC"}

DateRows ==
    {Row(S("Sidorova"), EmptyStr, EmptyStr, S("Otpusk"), d1, d2) : d1, d2 \in DatePool}

InitDates == LoopEntry(StudyZones, DateRows)

NextDates ==
    \/ ProcessRow
    \/ FinishCreate

SpecDates == InitDates /\ [][NextDates]_vars

\* days of the year before the first of each month, in a common year
DaysBefore == <<0, 31, 59, 90, 120, 151, 181, 212, 243, 273, 304, 334>>

\* the number of the day in the proleptic Gregorian calendar
DayNumber(Y, M, D) ==
    365 * (Y - 1) + ((Y - 1) \div 4) - ((Y - 1) \div 100) + ((Y - 1) \div 400)
        + DaysBefore[M] + (IF M > 2 /\ IsLeap(Y) THEN 1 ELSE 0) + D

\* the instant, hours after the start of day number 0, at minute mi, second s
InstantAt(hours, mi, s, near) ==
    CHOOSE dt \in {[Y |-> Y, M |-> M, D |-> D, h |-> hours % 24, mi |-> mi, s |-> s, us |-> 0] :
                       Y \in (near - 1)..(near + 1), M \in 1..12, D \in 1..31} :
        /\ dt.D <= DaysInMonth(dt.Y, dt.M)
        /\ DayNumber(dt.Y, dt.M, dt.D) = hours \div 24

\* the calendar year a cell names: two digits are 2000 + y up to 68, 1900 + y
\* from 69
YearOf(c) == IF c.yd = 2 THEN (IF c.y <= 68 THEN 2000 + c.y ELSE 1900 + c.y) ELSE c.y

\* a cell that is a date: d/m/yy or d/m/yyyy of a day that exists
IsDate(c) ==
    /\ c.kind = "dmy" /\ c.yd \in {2, 4}
    /\ c.m \in 1..12 /\ c.d >= 1 /\ c.d <= DaysInMonth(YearOf(c), c.m)

\* the text of the UTC instant of the local time h:mi:s of the day of cell c
UtcTextOf(c, tz, h, mi, s) ==
    Strftime(InstantAt(24 * DayNumber(YearOf(c), c.m, c.d) + h - UtcOffset(tz), mi, s, YearOf(c)))

CreateCallOf(i) == CHOOSE c \in {calls[k] : k \in 1..Len(calls)} : c.op = "POST create" /\ c.n = i

\* C12: a row whose two cells are dates is sent with start the UTC instant of
\* local 00:00:00 of the first date and end the UTC instant of local 23:59:59 of
\* the second, both with zero microseconds; in Europe/Moscow the dates 01/07/25
\* and 14/07/25 give 2025-06-30T21:00:00.000000Z and
\* 2025-07-14T20:59:59.000000Z; a row with an empty or unparseable date cell is
\* skipped and no create call is issued for it.
C12_DatesAreLocalDayBounds ==
    InCreateRun =>
        \A i \in 1..Len(results) :
            LET r == DataRows[i]
            IN  /\ (IsDate(r.Data1) /\ IsDate(r.Data2) /\ CreateCallsFor(i) = 1) =>
                      /\ CreateCallOf(i).start = UtcTextOf(r.Data1, timezone, 0, 0, 0)
                      /\ CreateCallOf(i).end = UtcTextOf(r.Data2, timezone, 23, 59, 59)
                /\ (IsDate(r.Data1) /\ IsDate(r.Data2) /\ Truthy(r.Tip)) =>
                      results[i].tpl # "skip_bad_dates"
                /\ (timezone = "Europe/Moscow" /\ r.Data1 = Dmy(1, 7, 25, 2)
                        /\ r.Data2 = Dmy(14, 7, 25, 2) /\ CreateCallsFor(i) = 1) =>
                      /\ CreateCallOf(i).start = "2025-06-30T21:00:00.000000Z"
                      /\ CreateCallOf(i).end = "2025-07-14T20:59:59.000000Z"
                /\ (~IsDate(r.Data1) \/ ~IsDate(r.Data2)) =>
                      /\ CreateCallsFor(i) = 0
                      /\ results[i].tpl \in {"skip_bad_dates", "skip_no_type"}

\* the spec's row in Europe/Moscow was sent with its two instants, and the call
\* succeeded
C12_Witness ==
    /\ pc = "tab2" /\ InCreateRun /\ timezone = "Europe/Moscow" /\ Len(DataRows) = 1
    /\ DataRows[1].Data1 = Dmy(1, 7, 25, 2) /\ DataRows[1].Data2 = Dmy(14, 7, 25, 2)
    /\ CreateCallsFor(1) = 1
    /\ CreateCallOf(1).start = "2025-06-30T21:00:00.000000Z"
    /\ CreateCallOf(1).end = "2025-07-14T20:59:59.000000Z"
    /\ results[1].tpl = "created"

====
